---------------------------- MODULE Spec2Model ----------------------------
(***************************************************************************)
(* Model of the otoshi native helpers:                                     *)
(*   native/c/crypto_helper/otoshi_crypto_helper.c                         *)
(*       otoshi_fnv1a64, otoshi_consttime_eq                               *)
(*   native/cpp/fs_scanner/otoshi_fs_scanner.cpp                           *)
(*       fnv1a64_file, main                                                *)
(*                                                                         *)
(* A uint64_t is an 8-tuple of bytes, least significant first, so that the *)
(* arithmetic modulo 2^64 of the code is computed exactly.                 *)
(***************************************************************************)
EXTENDS Integers, Sequences, FiniteSets, TLC

VARIABLES
    \* ---- one use of otoshi_fnv1a64 by a caller hashing a stream in chunks
    hpc, hdata, hsplit, hwhole, hfirst, hsecond, hcont,
    \* ---- one call of otoshi_consttime_eq
    cpc, left, right, len, i, diff, trace, result,
    \* ---- one call of fnv1a64_file
    fpc, ffile, fcap, fin, fhash, freads, fconsumed,
    \* ---- one run of the scanner's main
    pc, argc, root, tree, listing, idx, file_count, total_bytes, aggregate,
    hashed, out, err, exit_code

hvars == <<hpc, hdata, hsplit, hwhole, hfirst, hsecond, hcont>>
cvars == <<cpc, left, right, len, i, diff, trace, result>>
fvars == <<fpc, ffile, fcap, fin, fhash, freads, fconsumed>>
mvars == <<pc, argc, root, tree, listing, idx, file_count, total_bytes, aggregate,
           hashed, out, err, exit_code>>
vars == <<hvars, cvars, fvars, mvars>>

-----------------------------------------------------------------------------
(* Bounds of the model. *)

\* longest byte sequence given to the hash primitive, the comparator and
\* the file hasher
MaxLen == 3
\* most entries the directory iteration yields in one scan
MaxEntries == 2

\* byte values the inputs are built from: zero, an ASCII letter and a value
\* above 127 (negative as a char)
Bytes == {0, 97, 200}

\* a pointer argument: null, or the bytes it points to
NullPtr == [null |-> TRUE, bytes |-> <<>>]
Ptr(s) == [null |-> FALSE, bytes |-> s]

RECURSIVE SeqsUpTo(_, _)
SeqsUpTo(S, n) ==
    IF n = 0 THEN {<<>>}
    ELSE LET shorter == SeqsUpTo(S, n - 1)
         IN  shorter \cup {Append(s, b) : s \in {t \in shorter : Len(t) = n - 1}, b \in S}

SeqsOfLen(S, n) == {s \in SeqsUpTo(S, n) : Len(s) = n}

-----------------------------------------------------------------------------
(* uint8_t and uint64_t arithmetic. *)

\* a ^ b on non-negative integers
RECURSIVE XorN(_, _)
XorN(a, b) ==
    IF a = 0 THEN b
    ELSE IF b = 0 THEN a
    ELSE ((a + b) % 2) + 2 * XorN(a \div 2, b \div 2)

\* a | b on non-negative integers
RECURSIVE OrN(_, _)
OrN(a, b) ==
    IF a = 0 THEN b
    ELSE IF b = 0 THEN a
    ELSE (IF a % 2 = 1 \/ b % 2 = 1 THEN 1 ELSE 0) + 2 * OrN(a \div 2, b \div 2)

Limbs == 1..8

\* carry propagation over eight columns, the carry out of the top one dropped
\* (reduction modulo 2^64)
RECURSIVE Carry(_, _, _)
Carry(cols, k, c) ==
    IF k > 8 THEN <<>>
    ELSE LET t == cols[k] + c
         IN  <<t % 256>> \o Carry(cols, k + 1, t \div 256)

\* conversion of an int to uint64_t (two's complement for a negative one of
\* at most eight bits, as a sign extension gives)
U64FromInt(n) ==
    IF n >= 0 THEN Carry([k \in Limbs |-> IF k = 1 THEN n ELSE 0], 1, 0)
    ELSE [k \in Limbs |-> IF k = 1 THEN n + 256 ELSE 255]

U64Xor(x, y) == [k \in Limbs |-> XorN(x[k], y[k])]

RECURSIVE ColumnSum(_, _, _, _)
ColumnSum(x, y, k, j) ==
    IF j > k THEN 0 ELSE x[j] * y[k + 1 - j] + ColumnSum(x, y, k, j + 1)

\* x * y modulo 2^64
U64Mul(x, y) == Carry([k \in Limbs |-> ColumnSum(x, y, k, 1)], 1, 0)

\* the value of a decimal literal, as a uint64_t
RECURSIVE U64FromDecimal(_)
U64FromDecimal(ds) ==
    IF ds = <<>> THEN U64FromInt(0)
    ELSE LET hi == U64FromDecimal(SubSeq(ds, 1, Len(ds) - 1))
         IN  Carry([k \in Limbs |-> hi[k] * 10 + (IF k = 1 THEN ds[Len(ds)] ELSE 0)], 1, 0)

\* 1469598103934665603ULL
kOffset == U64FromDecimal(<<1,4,6,9,5,9,8,1,0,3,9,3,4,6,6,5,6,0,3>>)
\* 1099511628211ULL
kPrime == U64FromDecimal(<<1,0,9,9,5,1,1,6,2,8,2,1,1>>)


-----------------------------------------------------------------------------
(* otoshi_crypto_helper.c : otoshi_fnv1a64 *)

\* FNV-1 instead of FNV-1a: the multiplication before the xor
Fnv1Step(hash, b) == U64Xor(U64Mul(hash, kPrime), U64FromInt(b))

\* hash ^= (uint64_t)data[i]; hash *= prime;
Fnv1aStep(hash, b) == U64Mul(U64Xor(hash, U64FromInt(b)), kPrime)

\* for (size_t i = 0; i < len; ++i) { ... }, entered with i = j
RECURSIVE Fnv1aLoop(_, _, _, _)
Fnv1aLoop(hash, data, j, n) ==
    IF j < n THEN Fnv1aLoop(Fnv1aStep(hash, data[j + 1]), data, j + 1, n)
    ELSE hash

\* the exported function: two parameters, the accumulator always starts at
\* the offset basis
otoshi_fnv1a64(data, n) ==
    IF data.null THEN kOffset
    ELSE Fnv1aLoop(kOffset, data.bytes, 0, n)

-----------------------------------------------------------------------------
(* otoshi_crypto_helper.c : otoshi_consttime_eq, one step per loop iteration *)

\* a loop that stops at the first difference
CmpLoopCondShortCircuit(j, n, d) == j < n /\ d = 0

\* i < len
CmpLoopCond(j, n, d) == j < n

\* diff ^= ... instead of diff |= ...
CmpAccumulateXor(d, l, r) == XorN(d, XorN(l, r) % 256)

\* diff |= (uint8_t)(left[i] ^ right[i]);
CmpAccumulate(d, l, r) == OrN(d, XorN(l, r) % 256)

CmpEnter ==
    /\ cpc = "call"
    /\ IF left.null \/ right.null
       THEN /\ result' = 0
            /\ cpc' = "done"
            /\ UNCHANGED <<diff, i>>
       ELSE /\ diff' = 0
            /\ i' = 0
            /\ cpc' = "loop"
            /\ UNCHANGED result
    /\ UNCHANGED <<left, right, len, trace>>
    /\ UNCHANGED <<hvars, fvars, mvars>>

CmpStep ==
    /\ cpc = "loop"
    /\ CmpLoopCond(i, len, diff)
    /\ diff' = CmpAccumulate(diff, left.bytes[i + 1], right.bytes[i + 1])
    /\ trace' = Append(trace, [l |-> i, r |-> i])
    /\ i' = i + 1
    /\ UNCHANGED <<cpc, left, right, len, result>>
    /\ UNCHANGED <<hvars, fvars, mvars>>

CmpReturn ==
    /\ cpc = "loop"
    /\ ~CmpLoopCond(i, len, diff)
    /\ result' = IF diff = 0 THEN 1 ELSE 0
    /\ cpc' = "done"
    /\ UNCHANGED <<left, right, len, i, diff, trace>>
    /\ UNCHANGED <<hvars, fvars, mvars>>

-----------------------------------------------------------------------------
(* otoshi_fs_scanner.cpp : fnv1a64_file *)

\* sizeof(buffer)
sizeof_buffer == 8192

\* buffer capacities the file hasher is run with: the code's, and small ones
\* that put chunk boundaries inside the modelled files
BufferSizes == {1, 2, sizeof_buffer}

\* a byte of the file as stored in char buffer[] (char is signed here; with
\* an unsigned char CastU8 below is the identity and the result the same)
ToChar(b) == IF b > 127 THEN b - 256 ELSE b

\* static_cast<uint8_t>(buffer[i])
CastU8(c) == (c + 256) % 256

\* hash ^= static_cast<uint8_t>(buffer[i]); hash *= kPrime;
HashByte(hash, c) == U64Mul(U64Xor(hash, U64FromInt(CastU8(c))), kPrime)

\* for (std::streamsize i = 0; i < bytes; ++i) { ... }, entered with i = j
RECURSIVE HashBuffer(_, _, _, _)
HashBuffer(hash, buffer, j, bytes) ==
    IF j < bytes THEN HashBuffer(HashByte(hash, buffer[j + 1]), buffer, j + 1, bytes)
    ELSE hash

\* A file on disk: its bytes, whether the open succeeds, and whether reading
\* fails after failAt bytes have been delivered.
MkFile(content, openable, fails, failAt) ==
    [content |-> content, openable |-> openable, fails |-> fails, failAt |-> failAt]

Deliverable(file) == IF file.fails THEN file.failAt ELSE Len(file.content)

\* in.read(buffer, n) at stream position pos: the bytes stored in the buffer
\* (gcount of them) and in.good() afterwards. A read that cannot deliver n
\* bytes sets eofbit/failbit (end of file) or badbit (error).
StreamRead(file, pos, n) ==
    LET avail == Deliverable(file) - pos
        count == IF n < avail THEN n ELSE avail
    IN  [data |-> [k \in 1..count |-> ToChar(file.content[pos + k])],
         good |-> (count = n)]

\* while (in.read(buffer, sizeof(buffer))) { ... }: the bytes of a read that
\* did not fill the buffer are not hashed
ReadChunkDropTail(st, file, cap) ==
    LET rd == StreamRead(file, st.pos, cap)
        bytes == Len(rd.data)
    IN  [pos |-> st.pos + bytes,
         good |-> rd.good,
         hash |-> IF rd.good THEN HashBuffer(st.hash, rd.data, 0, bytes) ELSE st.hash,
         bytes |-> bytes,
         data |-> rd.data]

\* one iteration of while (in.good()) { ... } on the state st = [pos, good, hash]
ReadChunk(st, file, cap) ==
    LET rd == StreamRead(file, st.pos, cap)
        bytes == Len(rd.data)
    IN  [pos |-> st.pos + bytes,
         good |-> rd.good,
         hash |-> HashBuffer(st.hash, rd.data, 0, bytes),
         bytes |-> bytes,
         data |-> rd.data]

\* the stream right after a successful open
Opened == [pos |-> 0, good |-> TRUE, hash |-> kOffset, bytes |-> 0, data |-> <<>>]

RECURSIVE ReadLoop(_, _, _)
ReadLoop(st, file, cap) ==
    IF st.good THEN ReadLoop(ReadChunk(st, file, cap), file, cap)
    ELSE st.hash

\* a file hasher that returns 0 for a file it cannot open
fnv1a64_file_zero(file, cap) ==
    IF ~file.openable THEN U64FromInt(0)
    ELSE ReadLoop(Opened, file, cap)

\* the whole function, with a buffer of cap chars
fnv1a64_file(file, cap) ==
    IF ~file.openable THEN kOffset
    ELSE ReadLoop(Opened, file, cap)

\* the same, one step per read
FileOpen ==
    /\ fpc = "open"
    /\ fhash' = kOffset
    /\ IF ~ffile.openable
       THEN fpc' = "returned" /\ UNCHANGED fin
       ELSE fpc' = "loop" /\ fin' = Opened
    /\ UNCHANGED <<ffile, fcap, freads, fconsumed>>
    /\ UNCHANGED <<hvars, cvars, mvars>>

FileRead ==
    /\ fpc = "loop"
    /\ fin.good
    /\ fin' = ReadChunk(fin, ffile, fcap)
    /\ fhash' = fin'.hash
    /\ freads' = Append(freads, fin'.bytes)
    /\ fconsumed' = fconsumed \o [k \in 1..fin'.bytes |-> CastU8(fin'.data[k])]
    /\ UNCHANGED <<fpc, ffile, fcap>>
    /\ UNCHANGED <<hvars, cvars, mvars>>

FileReturn ==
    /\ fpc = "loop"
    /\ ~fin.good
    /\ fpc' = "returned"
    /\ UNCHANGED <<ffile, fcap, fin, fhash, freads, fconsumed>>
    /\ UNCHANGED <<hvars, cvars, mvars>>

-----------------------------------------------------------------------------
(* otoshi_fs_scanner.cpp : main *)

\* A directory entry. type is what the entry itself is ("regular",
\* "directory", "symlink", "other"); target is what a symlink resolves to
\* ("regular", "directory", "not_found", or "error" when resolving fails,
\* as for a symlink loop); file describes the bytes behind a regular file or
\* behind a symlink to one; statOk tells whether file_size succeeds; a
\* directory has children, which the iteration does not reach when the
\* directory is denied.
MkEntry(type, target, file, statOk, denied, children) ==
    [type |-> type, target |-> target, file |-> file, statOk |-> statOk,
     denied |-> denied, children |-> children]

NoFile == MkFile(<<>>, FALSE, FALSE, 0)

RegularEntry(file, statOk) == MkEntry("regular", "regular", file, statOk, FALSE, <<>>)
SymlinkEntry(target, file) == MkEntry("symlink", target, file, TRUE, FALSE, <<>>)
OtherEntry == MkEntry("other", "other", NoFile, TRUE, FALSE, <<>>)
DirEntry(denied, children) == MkEntry("directory", "directory", NoFile, TRUE, denied, children)

\* entry.status(): follows a symlink
Status(e) == IF e.type = "symlink" THEN e.target ELSE e.type

\* !entry.is_directory() instead of entry.is_regular_file()
IsNotDirectory(e) == [throws |-> Status(e) = "error", value |-> Status(e) # "directory"]

\* entry.is_regular_file(): is_regular_file(status()); the overload without
\* an error_code throws filesystem_error when status() fails
IsRegularFile(e) == [throws |-> Status(e) = "error", value |-> Status(e) = "regular"]

\* entry.file_size(ec): the size of the file the entry resolves to
FileSize(e) == [ec |-> ~e.statOk, size |-> Len(e.file.content)]

\* what recursive_directory_iterator(root, skip_permission_denied) yields for
\* the entries of a directory: each entry, then the entries below it when it
\* is a directory that can be opened; symlinks to directories are not followed
RECURSIVE Iterate(_)
Iterate(entries) ==
    IF entries = <<>> THEN <<>>
    ELSE LET e == Head(entries)
         IN  <<e>>
             \o (IF e.type = "directory" /\ ~e.denied THEN Iterate(e.children) ELSE <<>>)
             \o Iterate(Tail(entries))

\* the counter incremented before the error_code is looked at
VisitEntryCountFirst(st, e, k) ==
    LET reg == IsRegularFile(e)
        sz == FileSize(e)
        file_hash == fnv1a64_file(e.file, sizeof_buffer)
    IN  IF reg.throws THEN [st EXCEPT !.thrown = TRUE]
        ELSE IF ~reg.value THEN st
        ELSE IF sz.ec THEN [st EXCEPT !.file_count = st.file_count + 1]
        ELSE [file_count |-> st.file_count + 1,
              total_bytes |-> st.total_bytes + sz.size,
              aggregate |-> U64Mul(U64Xor(st.aggregate, file_hash), kPrime),
              hashed |-> Append(st.hashed, [at |-> k, digest |-> file_hash]),
              thrown |-> FALSE]

\* aggregate *= kPrime before aggregate ^= file_hash
VisitEntryMulFirst(st, e, k) ==
    LET reg == IsRegularFile(e)
        sz == FileSize(e)
        file_hash == fnv1a64_file(e.file, sizeof_buffer)
    IN  IF reg.throws THEN [st EXCEPT !.thrown = TRUE]
        ELSE IF ~reg.value THEN st
        ELSE IF sz.ec THEN st
        ELSE [file_count |-> st.file_count + 1,
              total_bytes |-> st.total_bytes + sz.size,
              aggregate |-> U64Xor(U64Mul(st.aggregate, kPrime), file_hash),
              hashed |-> Append(st.hashed, [at |-> k, digest |-> file_hash]),
              thrown |-> FALSE]

\* total_bytes = size instead of total_bytes += size
VisitEntryAssignBytes(st, e, k) ==
    LET reg == IsRegularFile(e)
        sz == FileSize(e)
        file_hash == fnv1a64_file(e.file, sizeof_buffer)
    IN  IF reg.throws THEN [st EXCEPT !.thrown = TRUE]
        ELSE IF ~reg.value THEN st
        ELSE IF sz.ec THEN st
        ELSE [file_count |-> st.file_count + 1,
              total_bytes |-> sz.size,
              aggregate |-> U64Mul(U64Xor(st.aggregate, file_hash), kPrime),
              hashed |-> Append(st.hashed, [at |-> k, digest |-> file_hash]),
              thrown |-> FALSE]

\* the body of the for loop on st = [file_count, total_bytes, aggregate,
\* hashed, thrown], for the entry at position k of the iteration
VisitEntry(st, e, k) ==
    LET reg == IsRegularFile(e)
        sz == FileSize(e)
        file_hash == fnv1a64_file(e.file, sizeof_buffer)
    IN  IF reg.throws THEN [st EXCEPT !.thrown = TRUE]
        ELSE IF ~reg.value THEN st
        ELSE IF sz.ec THEN st
        ELSE [file_count |-> st.file_count + 1,
              total_bytes |-> st.total_bytes + sz.size,
              aggregate |-> U64Mul(U64Xor(st.aggregate, file_hash), kPrime),
              hashed |-> Append(st.hashed, [at |-> k, digest |-> file_hash]),
              thrown |-> FALSE]

\* std::hex << std::setw(16) << std::setfill('0') << aggregate
HexChar(d) ==
    <<"0","1","2","3","4","5","6","7","8","9","a","b","c","d","e","f">>[d + 1]

\* the hexadecimal digits of x from limb k down, without leading zeros
RECURSIVE HexFrom(_, _, _)
HexFrom(x, k, leading) ==
    IF k = 0 THEN ""
    ELSE LET hi == x[k] \div 16
             lo == x[k] % 16
             s1 == IF leading /\ hi = 0 THEN "" ELSE HexChar(hi)
             l1 == leading /\ hi = 0
             s2 == IF l1 /\ lo = 0 /\ k > 1 THEN "" ELSE HexChar(lo)
             l2 == l1 /\ lo = 0
         IN  s1 \o s2 \o HexFrom(x, k - 1, l2)

RECURSIVE PadLeft(_, _, _)
PadLeft(s, width, fill) ==
    IF Len(s) >= width THEN s ELSE PadLeft(fill \o s, width, fill)

FormatHash(x) == "0x" \o PadLeft(HexFrom(x, 8, TRUE), 16, "0")

\* fs::exists(root): throws when the status of the root cannot be read
Exists(r) == [throws |-> r.kind = "error", value |-> r.kind # "not_found"]

\* fs::is_directory(root)
IsDirectory(r) == r.kind = "directory"

\* a root check that only asks whether the path exists
InvalidRootExistsOnly(r) == ~Exists(r).value

\* !fs::exists(root) || !fs::is_directory(root)
InvalidRoot(r) == ~Exists(r).value \/ ~IsDirectory(r)

Running == [file_count |-> file_count, total_bytes |-> total_bytes,
            aggregate |-> aggregate, hashed |-> hashed, thrown |-> FALSE]

\* lines 30-45: the argument and root checks and the counters' initialisation.
\* exists(root) throws when the root's status cannot be read; an exception
\* nobody catches ends the process through std::terminate, without output
\* (exit status 134, that of abort(), stands for it).
MainStart ==
    /\ pc = "start"
    /\ IF argc < 2
       THEN /\ err' = Append(err, "usage")
            /\ exit_code' = 1
            /\ pc' = "exited"
       ELSE IF Exists(root).throws
       THEN /\ pc' = "aborted"
            /\ exit_code' = 134
            /\ UNCHANGED err
       ELSE IF InvalidRoot(root)
       THEN /\ err' = Append(err, "invalid root")
            /\ exit_code' = 1
            /\ pc' = "exited"
       ELSE /\ pc' = "scan"
            /\ UNCHANGED <<err, exit_code>>
    /\ file_count' = 0
    /\ total_bytes' = 0
    /\ aggregate' = kOffset
    /\ idx' = 1
    /\ UNCHANGED <<argc, root, tree, listing, hashed, out>>
    /\ UNCHANGED <<hvars, cvars, fvars>>

\* lines 47-58: one iteration of the for loop
MainVisit ==
    /\ pc = "scan"
    /\ idx <= Len(listing)
    /\ LET st == VisitEntry(Running, listing[idx], idx)
       IN  IF st.thrown
           THEN /\ pc' = "aborted"
                /\ exit_code' = 134
                /\ UNCHANGED <<file_count, total_bytes, aggregate, hashed, idx>>
           ELSE /\ file_count' = st.file_count
                /\ total_bytes' = st.total_bytes
                /\ aggregate' = st.aggregate
                /\ hashed' = st.hashed
                /\ idx' = idx + 1
                /\ UNCHANGED <<pc, exit_code>>
    /\ UNCHANGED <<argc, root, tree, listing, out, err>>
    /\ UNCHANGED <<hvars, cvars, fvars>>

\* lines 60-68: the summary line and the exit
MainEmit ==
    /\ pc = "scan"
    /\ idx > Len(listing)
    /\ out' = Append(out, [root |-> root.path,
                           file_count |-> file_count,
                           total_bytes |-> total_bytes,
                           aggregate_hash |-> FormatHash(aggregate)])
    /\ exit_code' = 0
    /\ pc' = "exited"
    /\ UNCHANGED <<argc, root, tree, listing, idx, file_count, total_bytes, aggregate,
                   hashed, err>>
    /\ UNCHANGED <<hvars, cvars, fvars>>

\* the whole loop at once, over an iteration order
RECURSIVE ScanLoop(_, _, _)
ScanLoop(st, entries, k) ==
    IF k > Len(entries) \/ st.thrown THEN st
    ELSE ScanLoop(VisitEntry(st, entries[k], k), entries, k + 1)

ScanStart == [file_count |-> 0, total_bytes |-> 0, aggregate |-> kOffset,
              hashed |-> <<>>, thrown |-> FALSE]

-----------------------------------------------------------------------------
(* A caller of otoshi_fnv1a64 hashing a stream s = c1 \o c2 *)

Chunk1 == IF hdata.null THEN NullPtr ELSE Ptr(SubSeq(hdata.bytes, 1, hsplit))
Chunk2 == IF hdata.null THEN NullPtr
          ELSE Ptr(SubSeq(hdata.bytes, hsplit + 1, Len(hdata.bytes)))

\* one invocation on the whole stream
HashWhole ==
    /\ hpc = "start"
    /\ hwhole' = otoshi_fnv1a64(hdata, Len(hdata.bytes))
    /\ hpc' = "whole"
    /\ UNCHANGED <<hdata, hsplit, hfirst, hsecond, hcont>>
    /\ UNCHANGED <<cvars, fvars, mvars>>

\* an invocation on the first chunk
HashFirst ==
    /\ hpc = "whole"
    /\ hfirst' = otoshi_fnv1a64(Chunk1, Len(Chunk1.bytes))
    /\ hpc' = "first"
    /\ UNCHANGED <<hdata, hsplit, hwhole, hsecond, hcont>>
    /\ UNCHANGED <<cvars, fvars, mvars>>

\* the next invocation, on the second chunk: the function has no parameter
\* through which hfirst could be handed to it
HashSecond ==
    /\ hpc = "first"
    /\ hsecond' = otoshi_fnv1a64(Chunk2, Len(Chunk2.bytes))
    /\ hpc' = "second"
    /\ UNCHANGED <<hdata, hsplit, hwhole, hfirst, hcont>>
    /\ UNCHANGED <<cvars, fvars, mvars>>

\* the accumulator hfirst carried through the second chunk by the byte loop
\* of fnv1a64_file, the place where the code hashes across chunks
HashContinue ==
    /\ hpc = "second"
    /\ hcont' = LET buffer == [k \in 1..Len(Chunk2.bytes) |-> ToChar(Chunk2.bytes[k])]
                IN  HashBuffer(hfirst, buffer, 0, Len(buffer))
    /\ hpc' = "chained"
    /\ UNCHANGED <<hdata, hsplit, hwhole, hfirst, hsecond>>
    /\ UNCHANGED <<cvars, fvars, mvars>>

-----------------------------------------------------------------------------
(* Inputs *)

ByteSeqs == SeqsUpTo(Bytes, MaxLen)

\* files given to fnv1a64_file alone
Files ==
    {MkFile(c, TRUE, FALSE, 0) : c \in ByteSeqs}
    \cup {MkFile(c, FALSE, FALSE, 0) : c \in ByteSeqs}
    \cup UNION {{MkFile(c, TRUE, TRUE, k) : k \in 0..Len(c)} : c \in ByteSeqs}

\* file contents met during a scan
ScanContents == {<<>>, <<97>>, <<200, 97>>}

LeafEntries ==
    {RegularEntry(MkFile(c, TRUE, FALSE, 0), TRUE) : c \in ScanContents}
    \cup {RegularEntry(MkFile(c, FALSE, FALSE, 0), TRUE) : c \in ScanContents}
    \cup {RegularEntry(MkFile(<<200, 97>>, TRUE, TRUE, k), TRUE) : k \in 0..2}
    \cup {RegularEntry(MkFile(<<97>>, TRUE, FALSE, 0), FALSE)}
    \cup {SymlinkEntry("regular", MkFile(<<97>>, TRUE, FALSE, 0)),
          SymlinkEntry("directory", NoFile),
          SymlinkEntry("not_found", NoFile),
          SymlinkEntry("error", NoFile),
          OtherEntry}

ChildEntries ==
    {RegularEntry(MkFile(<<97>>, TRUE, FALSE, 0), TRUE),
     RegularEntry(MkFile(<<97>>, TRUE, FALSE, 0), FALSE),
     SymlinkEntry("regular", MkFile(<<97>>, TRUE, FALSE, 0))}

DirEntries ==
    {DirEntry(d, <<>>) : d \in BOOLEAN}
    \cup {DirEntry(d, <<c>>) : d \in BOOLEAN, c \in ChildEntries}

Entries == LeafEntries \cup DirEntries

Trees == SeqsUpTo(Entries, MaxEntries)

-----------------------------------------------------------------------------
(* Specifications *)

HashIdle ==
    /\ hpc = "idle" /\ hdata = NullPtr /\ hsplit = 0
    /\ hwhole = kOffset /\ hfirst = kOffset /\ hsecond = kOffset /\ hcont = kOffset

CmpIdle ==
    /\ cpc = "idle" /\ left = NullPtr /\ right = NullPtr /\ len = 0
    /\ i = 0 /\ diff = 0 /\ trace = <<>> /\ result = 0

FileIdle ==
    /\ fpc = "idle" /\ ffile = NoFile /\ fcap = sizeof_buffer /\ fin = Opened
    /\ fhash = kOffset /\ freads = <<>> /\ fconsumed = <<>>

MainIdle ==
    /\ pc = "idle" /\ argc = 1 /\ root = [path |-> "", kind |-> "not_found"]
    /\ tree = <<>> /\ listing = <<>> /\ idx = 1
    /\ file_count = 0 /\ total_bytes = 0 /\ aggregate = kOffset
    /\ hashed = <<>> /\ out = <<>> /\ err = <<>> /\ exit_code = 0

HashInit ==
    /\ hpc = "start"
    /\ hdata \in {NullPtr} \cup {Ptr(s) : s \in ByteSeqs}
    /\ hsplit \in 0..Len(hdata.bytes)
    /\ hwhole = kOffset /\ hfirst = kOffset /\ hsecond = kOffset /\ hcont = kOffset
    /\ CmpIdle /\ FileIdle /\ MainIdle

HashNext == HashWhole \/ HashFirst \/ HashSecond \/ HashContinue

SpecHash == HashInit /\ [][HashNext]_vars

CmpInit ==
    /\ cpc = "call"
    /\ len \in 0..MaxLen
    /\ left \in {NullPtr} \cup {Ptr(s) : s \in SeqsOfLen(Bytes, len)}
    /\ right \in {NullPtr} \cup {Ptr(s) : s \in SeqsOfLen(Bytes, len)}
    /\ i = 0 /\ diff = 0 /\ trace = <<>> /\ result = 0
    /\ HashIdle /\ FileIdle /\ MainIdle

CmpNext == CmpEnter \/ CmpStep \/ CmpReturn

SpecCmp == CmpInit /\ [][CmpNext]_vars

FileInit ==
    /\ fpc = "open"
    /\ ffile \in Files
    /\ fcap \in BufferSizes
    /\ fin = Opened /\ fhash = kOffset /\ freads = <<>> /\ fconsumed = <<>>
    /\ HashIdle /\ CmpIdle /\ MainIdle

FileNext == FileOpen \/ FileRead \/ FileReturn

SpecFile == FileInit /\ [][FileNext]_vars

MainInit ==
    /\ pc = "start"
    /\ argc \in {1, 2}
    /\ root \in IF argc < 2 THEN {[path |-> "", kind |-> "not_found"]}
                ELSE {[path |-> "games", kind |-> k] :
                         k \in {"directory", "regular", "not_found", "error"}}
    /\ tree \in IF root.kind = "directory" THEN Trees ELSE {<<>>}
    /\ listing = Iterate(tree)
    /\ idx = 1 /\ file_count = 0 /\ total_bytes = 0 /\ aggregate = kOffset
    /\ hashed = <<>> /\ out = <<>> /\ err = <<>> /\ exit_code = 0
    /\ HashIdle /\ CmpIdle /\ FileIdle

MainNext == MainStart \/ MainVisit \/ MainEmit

SpecScan == MainInit /\ [][MainNext]_vars

-----------------------------------------------------------------------------
(* Properties *)

RECURSIVE SumSeq(_)
SumSeq(q) == IF q = <<>> THEN 0 ELSE Head(q) + SumSeq(Tail(q))

\* the digest the exported primitive gives for a byte sequence
Digest(bytes) == otoshi_fnv1a64(Ptr(bytes), Len(bytes))

\* C1: the file hasher, reading in chunks of at most the buffer size, hashes
\* every byte of the file once and in order, and only the gcount bytes each
\* read returned; for a file read without error its result is the digest
\* otoshi_fnv1a64 gives for the whole content in one call.
C1_ChunkedEqualsWhole ==
    (fpc \in {"loop", "returned"} /\ ffile.openable) =>
        /\ \A k \in 1..Len(freads) : freads[k] <= fcap
        /\ SumSeq(freads) = Len(fconsumed)
        /\ fconsumed = SubSeq(ffile.content, 1, Len(fconsumed))
        /\ fhash = Digest(fconsumed)
        /\ (fpc = "returned" /\ ~ffile.fails) =>
               /\ fconsumed = ffile.content
               /\ fhash = Digest(ffile.content)

\* a file of several chunks with a byte above 127, ended by a zero-byte read
C1_Witness ==
    /\ fpc = "returned" /\ ffile.openable /\ ~ffile.fails
    /\ Len(freads) >= 3
    /\ freads[Len(freads)] = 0
    /\ \E k \in 1..Len(ffile.content) : ffile.content[k] = 200

C3_EqIffAllBytesEqual ==
    cpc = "done" =>
        /\ result \in {0, 1}
        /\ result = 1 <=>
               /\ ~left.null
               /\ ~right.null
               /\ \A k \in 1..len : left.bytes[k] = right.bytes[k]

\* two sequences that differ at two positions by the same bits
C3_Witness ==
    /\ cpc = "done" /\ ~left.null /\ ~right.null
    /\ len >= 2
    /\ Cardinality({k \in 1..len : left.bytes[k] # right.bytes[k]}) = 2
    /\ result = 0

\* C4: otoshi_consttime_eq reads positions 0, 1, ..., len-1 of both
\* sequences, whatever they hold: the positions read so far are always
\* 0..i-1 on both sides, and at the return all len positions have been read.
C4_AccessTraceDependsOnLenOnly ==
    (cpc \in {"loop", "done"} /\ ~left.null /\ ~right.null) =>
        /\ trace = [k \in 1..i |-> [l |-> k - 1, r |-> k - 1]]
        /\ cpc = "done" => i = len

\* a difference at the first position, all positions read nevertheless
C4_Witness ==
    /\ cpc = "done" /\ ~left.null /\ ~right.null
    /\ len >= 2
    /\ left.bytes[1] # right.bytes[1]
    /\ Len(trace) = len
    /\ result = 0

\* an entry the loop counts: a regular file (by its followed status) whose
\* size can be read
Counted(e) == Status(e) = "regular" /\ e.statOk

\* the entries the iteration reaches, directory by directory, without those
\* below a denied directory
RECURSIVE Reached(_)
Reached(entries) ==
    IF entries = <<>> THEN <<>>
    ELSE Reached(SubSeq(entries, 1, Len(entries) - 1))
         \o <<entries[Len(entries)]>>
         \o (IF entries[Len(entries)].type = "directory" /\ ~entries[Len(entries)].denied
             THEN Reached(entries[Len(entries)].children) ELSE <<>>)

RECURSIVE CountOf(_, _)
CountOf(entries, n) ==
    IF n = 0 THEN 0
    ELSE CountOf(entries, n - 1) + (IF Counted(entries[n]) THEN 1 ELSE 0)

RECURSIVE BytesOf(_, _)
BytesOf(entries, n) ==
    IF n = 0 THEN 0
    ELSE BytesOf(entries, n - 1)
         + (IF Counted(entries[n]) THEN Len(entries[n].file.content) ELSE 0)

Visited == IF pc = "start" THEN 0 ELSE idx - 1

\* C5: at every point of a scan file_count is the number of regular files
\* visited so far and total_bytes the sum of their sizes; entries below a
\* denied directory, entries whose status cannot be read and entries whose
\* size cannot be read add to neither, and the summary carries those values.
C5_CountersMatchVisitedFiles ==
    /\ listing = Reached(tree)
    /\ pc # "start" =>
           /\ file_count = CountOf(listing, Visited)
           /\ total_bytes = BytesOf(listing, Visited)
           /\ file_count = Len(hashed)
    /\ \A k \in 1..Len(out) :
           /\ out[k].file_count = CountOf(Reached(tree), Len(Reached(tree)))
           /\ out[k].total_bytes = BytesOf(Reached(tree), Len(Reached(tree)))

\* a finished scan that met a file whose size could not be read, and counted
\* another file
C5_Witness ==
    /\ pc = "exited" /\ exit_code = 0 /\ Len(out) = 1
    /\ \E k \in 1..Len(listing) :
           Status(listing[k]) = "regular" /\ ~listing[k].statOk
    /\ out[1].file_count = 1
    /\ out[1].total_bytes > 0

\* the digests of the counted entries among the first n, in iteration order
RECURSIVE DigestsOf(_, _)
DigestsOf(entries, n) ==
    IF n = 0 THEN <<>>
    ELSE DigestsOf(entries, n - 1)
         \o (IF Counted(entries[n])
             THEN <<fnv1a64_file(entries[n].file, sizeof_buffer)>> ELSE <<>>)

\* aggregate = (aggregate XOR digest) * prime, folded from the left
RECURSIVE FoldLeft(_)
FoldLeft(ds) ==
    IF ds = <<>> THEN kOffset
    ELSE U64Mul(U64Xor(FoldLeft(SubSeq(ds, 1, Len(ds) - 1)), ds[Len(ds)]), kPrime)

\* C6: the aggregate is the left fold of (aggregate XOR digest) * prime over
\* the file hasher's digests of the counted files, in iteration order, from
\* the offset basis 1469598103934665603; a scan that counts no file emits
\* counters 0 and the offset basis, and a scan of one file the fold step
\* applied once to that file's digest.
C6_AggregateIsLeftFold ==
    /\ pc # "start" => aggregate = FoldLeft(DigestsOf(listing, Visited))
    /\ \A k \in 1..Len(out) :
           /\ out[k].aggregate_hash
                  = FormatHash(FoldLeft(DigestsOf(listing, Len(listing))))
           /\ out[k].file_count = 0 =>
                  /\ out[k].total_bytes = 0
                  /\ out[k].aggregate_hash = "0x14650fb0739d0383"
           /\ SelectSeq(listing, Counted)
                  = <<RegularEntry(MkFile(<<97>>, TRUE, FALSE, 0), TRUE)>> =>
                  /\ out[k].aggregate_hash
                         = FormatHash(U64Mul(U64Xor(kOffset, Digest(<<97>>)), kPrime))
                  /\ out[k].aggregate_hash = "0xb0852dec88f68fff"

\* a finished scan of two files with different digests
C6_Witness ==
    /\ pc = "exited" /\ exit_code = 0 /\ Len(out) = 1
    /\ Len(hashed) = 2
    /\ hashed[1].digest # hashed[2].digest
    /\ hashed[1].digest # kOffset

CountersUnchanged ==
    /\ file_count' = file_count
    /\ total_bytes' = total_bytes
    /\ aggregate' = aggregate
    /\ hashed' = hashed

\* C7 as stated: an entry that is not itself a regular file (a directory, a
\* symlink, a device) changes neither counter nor the aggregate and is not
\* hashed.
C7_NonRegularTypeSkipped ==
    [][(pc = "scan" /\ idx <= Len(listing) /\ listing[idx].type # "regular")
          => CountersUnchanged]_vars

\* C7 as amended: an entry whose status, read through a symlink, is not a
\* regular file (a directory, a device, a symlink to a directory, a dangling
\* symlink) changes neither counter nor the aggregate and is not hashed; a
\* symlink that resolves to a regular file is counted and hashed as one.
C7_NonRegularStatusSkipped ==
    [][(pc = "scan" /\ idx <= Len(listing)) =>
          /\ Status(listing[idx]) # "regular" => CountersUnchanged
          /\ (listing[idx].type = "symlink" /\ Counted(listing[idx])) =>
                 /\ file_count' = file_count + 1
                 /\ Len(hashed') = Len(hashed) + 1]_vars

\* a finished scan that skipped a device and counted a symlink to a file
C7_Witness ==
    /\ pc = "exited" /\ exit_code = 0
    /\ \E k \in 1..Len(listing) : listing[k].type = "other"
    /\ \E k \in 1..Len(hashed) : listing[hashed[k].at].type = "symlink"
    /\ file_count = 1

\* C8: without a root argument, or with a root that does not exist or is not
\* a directory, the run ends with exit code 1 before any entry is visited and
\* prints nothing on standard output; a summary is printed at most once and
\* only by a run that exits with code 0.
C8_InvalidRootFailsWithoutOutput ==
    /\ (pc # "start" /\ (argc < 2 \/ root.kind \in {"not_found", "regular"})) =>
           /\ pc = "exited"
           /\ exit_code = 1
           /\ out = <<>>
           /\ hashed = <<>> /\ idx = 1
           /\ err # <<>>
    /\ Len(out) <= 1
    /\ out # <<>> => (pc = "exited" /\ exit_code = 0)
    /\ (pc = "exited" /\ exit_code = 0) => Len(out) = 1

\* a run on a root that is a regular file
C8_Witness ==
    /\ pc = "exited" /\ argc = 2 /\ root.kind = "regular"
    /\ exit_code = 1 /\ out = <<>>

\* C9: a file that cannot be opened hashes to the offset basis, a file whose
\* reading fails hashes to the digest of the bytes delivered before the
\* failure, and neither ends the scan: the loop goes on to the next entry,
\* only an entry whose status cannot be read aborts the run, and a run that
\* visits every entry prints its summary and exits with code 0.
C9_FileErrorsAbsorbed ==
    /\ \A k \in 1..Len(hashed) :
           LET f == listing[hashed[k].at].file
           IN  /\ hashed[k].at < idx
               /\ ~f.openable => hashed[k].digest = kOffset
               /\ (f.openable /\ f.fails) =>
                      hashed[k].digest = Digest(SubSeq(f.content, 1, f.failAt))
    /\ pc = "aborted" =>
           \/ Exists(root).throws
           \/ (idx <= Len(listing) /\ Status(listing[idx]) = "error")
    /\ (pc = "exited" /\ argc >= 2 /\ root.kind = "directory") =>
           (idx > Len(listing) /\ exit_code = 0 /\ Len(out) = 1)

\* a finished scan that met a file it could not open and a file whose
\* reading failed after one byte
C9_Witness ==
    /\ pc = "exited" /\ exit_code = 0 /\ Len(out) = 1
    /\ \E k \in 1..Len(hashed) : ~listing[hashed[k].at].file.openable
    /\ \E k \in 1..Len(hashed) :
           LET f == listing[hashed[k].at].file
           IN  f.openable /\ f.fails /\ f.failAt = 1 /\ hashed[k].digest # kOffset

\* the orders in which the entries of the root may be enumerated
Orders(entries) ==
    {[k \in 1..Len(entries) |-> entries[p[k]]] :
        p \in {q \in [1..Len(entries) -> 1..Len(entries)] :
                  \A a, b \in 1..Len(entries) : a # b => q[a] # q[b]}}

ScanOf(entries) == ScanLoop(ScanStart, Iterate(entries), 1)

\* C10: file_count and total_bytes of a finished scan are the same for every
\* enumeration order of the same entries, while the aggregate is not: there
\* are scans whose aggregate another enumeration order changes.
C10_CountersOrderInsensitive ==
    (pc = "exited" /\ exit_code = 0) =>
        \A t \in Orders(tree) :
            /\ ScanOf(t).file_count = file_count
            /\ ScanOf(t).total_bytes = total_bytes

\* a finished scan of two files whose aggregate the other order changes
C10_Witness ==
    /\ pc = "exited" /\ exit_code = 0
    /\ Len(hashed) = 2
    /\ hashed[1].digest # hashed[2].digest
    /\ \E t \in Orders(tree) :
           /\ ScanOf(t).aggregate # aggregate
           /\ ScanOf(t).file_count = file_count
           /\ ScanOf(t).total_bytes = total_bytes

=============================================================================
